---- MODULE Spec2Model ----
(***************************************************************************)
(* Model of generate_docs.py: CSV rows are substituted into an HTML        *)
(* template and each rendered document is written as a PDF.                *)
(*                                                                         *)
(* Text is modelled character by character: a Python str is a sequence of  *)
(* one-character strings, so that the regular expressions and the strip    *)
(* calls of the source are computed as the source computes them.           *)
(***************************************************************************)
EXTENDS FiniteSets, Integers, Sequences, TLC

VARIABLES
    pc,                 \* position of main()
    env,                \* what main() finds on disk: inputs and output directory
    template_text,      \* main: the template as read
    rows,               \* main: the rows load_csv returned
    template_with_css,  \* main: the template after _inject_css_into_html
    idx,                \* main: 1-based index of the next row of the batch loop
    failures,           \* main: failure counter
    generated_paths,    \* main: list of produced output names
    files,              \* output directory: file name -> what the file holds
    log,                \* one entry per batch-loop iteration, in order
    open_pos,           \* main: position of the auto-open loop in generated_paths
    viewer_errors,      \* number of open_file calls whose launch failed
    exit_code,          \* value returned by main(), -1 while running
    args,               \* function harness: the arguments of the call
    result,             \* function harness: the value returned
    returned            \* function harness: TRUE once the call has returned

vars == <<pc, env, template_text, rows, template_with_css, idx, failures,
          generated_paths, files, log, open_pos, viewer_errors, exit_code,
          args, result, returned>>

mainVars == <<pc, env, template_text, rows, template_with_css, idx, failures,
              generated_paths, files, log, open_pos, viewer_errors, exit_code>>

harnessVars == <<args, result, returned>>

-----------------------------------------------------------------------------
(* Bounds *)

MaxNameLen == 4      \* longest file-name candidate given to _sanitize_filename
MaxTplParts == 2     \* template = concatenation of at most this many fragments
MaxDocParts == 3     \* markup document = at most this many fragments
MaxRows == 3         \* rows in a batch

-----------------------------------------------------------------------------
(* Text helpers *)

\* str.strip() without arguments removes whitespace
Whitespace == {" ", "\t", "\n"}

Min(S) == CHOOSE x \in S : \A y \in S : x <= y
Max(S) == CHOOSE x \in S : \A y \in S : x >= y

\* index of the first position >= i of s whose character is not in cs
\* (the position after the end of s if there is none)
SkipWhile(s, i, cs) ==
    Min({j \in i..Len(s) : s[j] \notin cs} \cup {IF i > Len(s) THEN i ELSE Len(s) + 1})

\* str.lstrip(cs), str.rstrip(cs)
LStrip(s, cs) == SubSeq(s, SkipWhile(s, 1, cs), Len(s))

RStrip(s, cs) == SubSeq(s, 1, Max({j \in 1..Len(s) : s[j] \notin cs} \cup {0}))

Strip(s) == RStrip(LStrip(s, Whitespace), Whitespace)

\* s[i:i+len(p)] == p
MatchAt(s, i, p) ==
    /\ i >= 1
    /\ i + Len(p) - 1 <= Len(s)
    /\ SubSeq(s, i, i + Len(p) - 1) = p

\* decimal digits of a natural number
Digit(n) == <<"0", "1", "2", "3", "4", "5", "6", "7", "8", "9">>[n + 1]

RECURSIVE Decimal(_)
Decimal(n) ==
    IF n < 10 THEN <<Digit(n)>> ELSE Decimal(n \div 10) \o <<Digit(n % 10)>>

\* format spec 0Nd: pad with zeros on the left up to width w, never cut
RECURSIVE ZeroPad(_, _)
ZeroPad(s, w) == IF Len(s) >= w THEN s ELSE ZeroPad(<<"0">> \o s, w)

-----------------------------------------------------------------------------
(* Output Namer *)

\* the characters of the class [<>:"/\\\\|?*]
ReservedChars == {"<", ">", ":", "\"", "/", "\\", "|", "?", "*"}

DefaultName == <<"d", "o", "c", "u", "m", "e", "n", "t">>

\* re.sub(r'[<>:"/\\\\|?*]+', "_", name): every maximal run of reserved
\* characters becomes one underscore
RECURSIVE SubReservedRuns(_)
SubReservedRuns(s) ==
    LET at == SkipWhile(s, 1, {s[j] : j \in 1..Len(s)} \ ReservedChars)
    IN  IF at > Len(s) THEN s
        ELSE SubSeq(s, 1, at - 1) \o <<"_">>
                 \o SubReservedRuns(LStrip(SubSeq(s, at, Len(s)), ReservedChars))

_sanitize_filename(name) ==
    LET n1 == Strip(name)
    IN  IF n1 = <<>> THEN DefaultName
        ELSE LET n2 == SubReservedRuns(n1)
                 n3 == Strip(RStrip(n2, {".", " "}))
             IN  IF n3 = <<>> THEN DefaultName ELSE n3

\* the conventional naming columns, in the order the loop tries them
K_filename == <<"f", "i", "l", "e", "n", "a", "m", "e">>
K_file_name == <<"f", "i", "l", "e", "_", "n", "a", "m", "e">>
K_doc_name == <<"d", "o", "c", "_", "n", "a", "m", "e">>
K_document_name == <<"d", "o", "c", "u", "m", "e", "n", "t", "_", "n", "a", "m", "e">>
K_id == <<"i", "d">>
K_name == <<"n", "a", "m", "e">>

NameKeys == <<K_filename, K_file_name, K_doc_name, K_document_name, K_id, K_name>>

\* row.get(key) or ""  (a row is a function from column names to values)
GetOrEmpty(row, key) == IF key \in DOMAIN row THEN row[key] ELSE <<>>

FallbackPrefix == <<"d", "o", "c", "u", "m", "e", "n", "t", "_">>

RECURSIVE ChooseFrom(_, _, _, _)
ChooseFrom(keys, k, row, index) ==
    IF k > Len(keys) THEN FallbackPrefix \o ZeroPad(Decimal(index), 4)
    ELSE LET val == Strip(GetOrEmpty(row, keys[k]))
         IN  IF val # <<>> THEN _sanitize_filename(val)
             ELSE ChooseFrom(keys, k + 1, row, index)

\* variant: the generic name column is tried before the explicit ones
_choose_output_filename_name_first(row, index) ==
    ChooseFrom(<<K_name, K_id, K_filename, K_file_name, K_doc_name, K_document_name>>,
               1, row, index)

_choose_output_filename(row, index) == ChooseFrom(NameKeys, 1, row, index)

-----------------------------------------------------------------------------
(* Placeholder Resolver *)

\* the characters of [a-zA-Z0-9_], in code-point order
NameAlphabet ==
    <<"0", "1", "2", "3", "4", "5", "6", "7", "8", "9", "A", "B", "C",
       "D", "E", "F", "G", "H", "I", "J", "K", "L", "M", "N", "O", "P",
       "Q", "R", "S", "T", "U", "V", "W", "X", "Y", "Z", "_", "a", "b",
       "c", "d", "e", "f", "g", "h", "i", "j", "k", "l", "m", "n", "o",
       "p", "q", "r", "s", "t", "u", "v", "w", "x", "y", "z">>

NameChars == {NameAlphabet[i] : i \in 1..Len(NameAlphabet)}

OpenBraces == <<"{", "{">>
CloseBraces == <<"}", "}">>

\* PLACEHOLDER_RE anchored at position i of s:
\*   \{\{  \s*  ([a-zA-Z0-9_]+)  \s*  \}\}
\* the classes are pairwise disjoint, so greedy matching never backtracks
PLACEHOLDER_RE(s, i) ==
    LET j == SkipWhile(s, i + 2, Whitespace)
        k == SkipWhile(s, j, NameChars)
        l == SkipWhile(s, k, Whitespace)
    IN  IF MatchAt(s, i, OpenBraces) /\ k > j /\ MatchAt(s, l, CloseBraces)
        THEN [found |-> TRUE, key |-> SubSeq(s, j, k - 1), next |-> l + 2]
        ELSE [found |-> FALSE, key |-> <<>>, next |-> i + 1]

\* start of the leftmost match of PLACEHOLDER_RE at or after position i,
\* 0 if there is none
NextPlaceholder(s, i) ==
    Min({j \in i..Len(s) : PLACEHOLDER_RE(s, j).found} \cup {Len(s) + 1}) % (Len(s) + 1)

\* PLACEHOLDER_RE.sub(repl, template_text) with the closure repl, from
\* position i on: the matches are taken from the left without overlap, the
\* text between them is copied, the replacement text is never scanned again;
\* missing collects the absent keys in order of occurrence, with repeats
RECURSIVE SubPlaceholders(_, _, _)
SubPlaceholders(s, i, row) ==
    LET at == NextPlaceholder(s, i)
    IN  IF at = 0 THEN [html |-> SubSeq(s, i, Len(s)), missing |-> <<>>]
        ELSE LET m == PLACEHOLDER_RE(s, at)
                 rest == SubPlaceholders(s, m.next, row)
                 before == SubSeq(s, i, at - 1)
             IN  IF m.key \notin DOMAIN row
                 THEN [html |-> before \o rest.html,
                       missing |-> <<m.key>> \o rest.missing]
                 ELSE [html |-> before \o row[m.key] \o rest.html,
                       missing |-> rest.missing]

K_generated_at == <<"g", "e", "n", "e", "r", "a", "t", "e", "d", "_", "a", "t">>

TimestampToken == OpenBraces \o K_generated_at \o CloseBraces

\* list.remove(x): drops the first element equal to x
RECURSIVE ListRemove(_, _)
ListRemove(l, x) ==
    IF l = <<>> THEN <<>>
    ELSE IF Head(l) = x THEN Tail(l)
    ELSE <<Head(l)>> \o ListRemove(Tail(l), x)

ListToSet(l) == {l[i] : i \in 1..Len(l)}

\* str.find(p, i): position of the first occurrence of p in s at or after i,
\* 0 if there is none
Find(s, i, p) ==
    Min({j \in i..Len(s) : MatchAt(s, j, p)} \cup {Len(s) + 1}) % (Len(s) + 1)

\* str.replace(old, new) from position i on: every non-overlapping
\* occurrence, from the left
RECURSIVE StrReplace(_, _, _, _)
StrReplace(s, i, old, new) ==
    LET at == Find(s, i, old)
    IN  IF at = 0 THEN SubSeq(s, i, Len(s))
        ELSE SubSeq(s, i, at - 1) \o new \o StrReplace(s, at + Len(old), old, new)

\* datetime.now().strftime("%Y-%m-%d %H:%M:%S")
strftime(now) ==
    ZeroPad(Decimal(now.year), 4) \o <<"-">> \o ZeroPad(Decimal(now.month), 2)
        \o <<"-">> \o ZeroPad(Decimal(now.day), 2) \o <<" ">>
        \o ZeroPad(Decimal(now.hour), 2) \o <<":">>
        \o ZeroPad(Decimal(now.minute), 2) \o <<":">>
        \o ZeroPad(Decimal(now.second), 2)

\* str comparison: by code point, a proper prefix sorts first
CodePoint(c) == CHOOSE i \in 1..Len(NameAlphabet) : NameAlphabet[i] = c

RECURSIVE StrLess(_, _)
StrLess(a, b) ==
    IF b = <<>> THEN FALSE
    ELSE IF a = <<>> THEN TRUE
    ELSE IF Head(a) = Head(b) THEN StrLess(Tail(a), Tail(b))
    ELSE CodePoint(Head(a)) < CodePoint(Head(b))

\* sorted(S) of a set of strings
RECURSIVE Sorted(_)
Sorted(S) ==
    IF S = {} THEN <<>>
    ELSE LET least == CHOOSE x \in S : \A y \in S \ {x} : StrLess(x, y)
         IN  <<least>> \o Sorted(S \ {least})

\* the wall clock is read once per call and is an argument here
render_template(template, row, now) ==
    LET sub == SubPlaceholders(template, 1, row)
        missing == IF K_generated_at \in ListToSet(sub.missing)
                   THEN ListRemove(sub.missing, K_generated_at)
                   ELSE sub.missing
        rendered == StrReplace(sub.html, 1, TimestampToken, strftime(now))
    IN  [html |-> rendered, missing_placeholders |-> Sorted(ListToSet(missing))]

-----------------------------------------------------------------------------
(* Style Composer *)

\* str.lower() of one character, for the letters of the two tag patterns
Lower(c) ==
    CASE c = "H" -> "h" [] c = "E" -> "e" [] c = "A" -> "a" [] c = "D" -> "d"
      [] c = "T" -> "t" [] c = "M" -> "m" [] c = "L" -> "l" [] OTHER -> c

\* s[i:i+len(p)] equals p, ignoring case (p is lower case)
MatchAtIgnoreCase(s, i, p) ==
    /\ i + Len(p) - 1 <= Len(s)
    /\ \A n \in 1..Len(p) : Lower(s[i + n - 1]) = p[n]

\* the pattern </head\s*> matches at position i
CloseHeadAt(html, i) ==
    LET j == SkipWhile(html, i + 6, Whitespace)
    IN  /\ MatchAtIgnoreCase(html, i, <<"<", "/", "h", "e", "a", "d">>)
        /\ j <= Len(html)
        /\ html[j] = ">"

\* re.search(r"</head\s*>", html, re.IGNORECASE): start of the leftmost
\* match, 0 if there is none
SearchCloseHead(html) ==
    Min({i \in 1..Len(html) : CloseHeadAt(html, i)} \cup {Len(html) + 1})
        % (Len(html) + 1)

\* the pattern <html[^>]*> matches at position i: some ">" follows "<html"
OpenHtmlAt(html, i) ==
    /\ MatchAtIgnoreCase(html, i, <<"<", "h", "t", "m", "l">>)
    /\ \E j \in (i + 5)..Len(html) : html[j] = ">"

\* re.search(r"<html[^>]*>", html, re.IGNORECASE): end of the leftmost match
\* (position of the first character after it, [^>]* stops at the first ">"),
\* 0 if there is none
SearchOpenHtml(html) ==
    LET starts == {i \in 1..Len(html) : OpenHtmlAt(html, i)}
    IN  IF starts = {} THEN 0
        ELSE Min({j \in (Min(starts) + 5)..Len(html) : html[j] = ">"}) + 1

StyleOpen == <<"<", "s", "t", "y", "l", "e", ">", "\n">>
StyleClose == <<"\n", "<", "/", "s", "t", "y", "l", "e", ">", "\n">>
HeadOpen == <<"\n", "<", "h", "e", "a", "d", ">", "\n">>
HeadClose == <<"<", "/", "h", "e", "a", "d", ">", "\n">>

style_block(css) == StyleOpen \o css \o StyleClose

\* variant: a document that already holds the style block is returned as it is
_inject_css_into_html_guarded(html, css) ==
    LET head == SearchCloseHead(html)
        root == SearchOpenHtml(html)
    IN  IF Find(html, 1, style_block(css)) # 0 THEN html
        ELSE IF head # 0
        THEN SubSeq(html, 1, head - 1) \o style_block(css)
                 \o SubSeq(html, head, Len(html))
        ELSE IF root # 0
        THEN SubSeq(html, 1, root - 1) \o HeadOpen \o style_block(css)
                 \o HeadClose \o SubSeq(html, root, Len(html))
        ELSE style_block(css) \o html

_inject_css_into_html(html, css) ==
    LET head == SearchCloseHead(html)
        root == SearchOpenHtml(html)
    IN  IF head # 0
        THEN SubSeq(html, 1, head - 1) \o style_block(css)
                 \o SubSeq(html, head, Len(html))
        ELSE IF root # 0
        THEN SubSeq(html, 1, root - 1) \o HeadOpen \o style_block(css)
                 \o HeadClose \o SubSeq(html, root, Len(html))
        ELSE style_block(css) \o html

\* the stylesheet, abridged: like the real one it holds neither "<" nor ">"
DEFAULT_CSS == <<"*", " ", "{", "}">>

-----------------------------------------------------------------------------
(* The batch run: main() *)

NoFiles == [n \in {} |-> 0]

\* what the run finds outside the program
Environments ==
    [select_csv : {"resolved", "nothing_to_select"},
     select_template : {"resolved", "nothing_to_select"},
     csv : {"ok", "absent", "directory", "undecodable", "no_header"},
     template : {"ok", "absent", "directory", "not_utf8", "unreadable"},
     out_dir : {"ok", "uncreatable"}]

V_a == <<"a">>
V_v == <<"v">>
Ext == <<".", "p", "d", "f">>

\* templates the run may read
MainTemplates ==
    {<<"{", "{", "a", "}", "}">>,
     <<"<", "h", "t", "m", "l", ">", "{", "{", " ", "a", " ", "}", "}", "{", "{", "g", "e", "n", "e", "r", "a", "t", "e", "d", "_", "a", "t", "}", "}">>}

\* rows the CSV may hold: two that derive the same output name (the second
\* lacks column a), one without any naming column
MainRows ==
    {[k \in {K_filename, V_a} |-> IF k = K_filename THEN <<"a", "/", "b">> ELSE V_v],
     [k \in {K_name} |-> <<"a", ":", "b">>],
     [k \in {V_a} |-> V_v]}

Batches == UNION {[1..n -> MainRows] : n \in 0..MaxRows}

Clocks ==
    {[year |-> 2024, month |-> 1, day |-> 9, hour |-> 7, minute |-> 5, second |-> 0],
     [year |-> 2031, month |-> 12, day |-> 31, hour |-> 23, minute |-> 59, second |-> 58]}

\* how one html_to_pdf call can end
\*   import_error   xhtml2pdf cannot be imported; the file system is not touched
\*   open_error     mkdir or open("wb") raises; the file is not touched
\*   render_raised  the file is open (created or truncated) and CreatePDF raises
\*   render_errors  CreatePDF returns with err > 0 after writing
\*   ok             CreatePDF returns with err = 0
PdfOutcomes == {"ok", "import_error", "open_error", "render_raised", "render_errors"}

\* html_to_pdf: the output directory after the call
html_to_pdf(fs, html, out_pdf, index, outcome) ==
    IF outcome \in {"import_error", "open_error"} THEN fs
    ELSE [n \in DOMAIN fs \cup {out_pdf} |->
            IF n = out_pdf
            THEN [html |-> html, complete |-> outcome = "ok", by |-> index]
            ELSE fs[n]]

Init ==
    /\ pc = "start"
    /\ env \in Environments
    /\ template_text = <<>>
    /\ rows = <<>>
    /\ template_with_css = <<>>
    /\ idx = 0
    /\ failures = 0
    /\ generated_paths = <<>>
    /\ files = NoFiles
    /\ log = <<>>
    /\ open_pos = 0
    /\ viewer_errors = 0
    /\ exit_code = -1
    /\ args = <<>>
    /\ result = <<>>
    /\ returned = FALSE

\* return 2
Abort ==
    /\ pc' = "done"
    /\ exit_code' = 2

\* lines 321-340: both paths are resolved or picked from the project folders
ResolveFiles ==
    /\ pc = "start"
    /\ IF env.select_csv = "nothing_to_select" \/ env.select_template = "nothing_to_select"
       THEN Abort
       ELSE pc' = "validate" /\ UNCHANGED exit_code
    /\ UNCHANGED <<env, template_text, rows, template_with_css, idx, failures,
                   generated_paths, files, log, open_pos, viewer_errors>>
    /\ UNCHANGED harnessVars

\* lines 344-353
ValidateInputs ==
    /\ pc = "validate"
    /\ IF env.csv = "absent" \/ env.template \in {"absent", "directory"}
       THEN Abort
       ELSE pc' = "read_template" /\ UNCHANGED exit_code
    /\ UNCHANGED <<env, template_text, rows, template_with_css, idx, failures,
                   generated_paths, files, log, open_pos, viewer_errors>>
    /\ UNCHANGED harnessVars

\* lines 355-362
ReadTemplate ==
    /\ pc = "read_template"
    /\ IF env.template \in {"not_utf8", "unreadable"}
       THEN Abort /\ UNCHANGED template_text
       ELSE /\ template_text' \in MainTemplates
            /\ pc' = "load_csv"
            /\ UNCHANGED exit_code
    /\ UNCHANGED <<env, rows, template_with_css, idx, failures,
                   generated_paths, files, log, open_pos, viewer_errors>>
    /\ UNCHANGED harnessVars

\* variant: a CSV that cannot be loaded is treated as a CSV without rows
LoadCsv_lenient ==
    /\ pc = "load_csv"
    /\ IF env.csv \in {"directory", "undecodable", "no_header"}
       THEN rows' = <<>>
       ELSE rows' \in Batches
    /\ pc' = "make_out_dir"
    /\ UNCHANGED <<env, template_text, template_with_css, idx, failures,
                   generated_paths, files, log, open_pos, viewer_errors, exit_code>>
    /\ UNCHANGED harnessVars

\* lines 364-368 with load_csv, lines 164-187: a directory, bytes that are not
\* UTF-8 and a file without header row all raise inside load_csv
LoadCsv ==
    /\ pc = "load_csv"
    /\ IF env.csv \in {"directory", "undecodable", "no_header"}
       THEN Abort /\ UNCHANGED rows
       ELSE /\ rows' \in Batches
            /\ pc' = "make_out_dir"
            /\ UNCHANGED exit_code
    /\ UNCHANGED <<env, template_text, template_with_css, idx, failures,
                   generated_paths, files, log, open_pos, viewer_errors>>
    /\ UNCHANGED harnessVars

\* lines 370-375
MakeOutDir ==
    /\ pc = "make_out_dir"
    /\ IF env.out_dir = "uncreatable"
       THEN Abort
       ELSE pc' = "inject_css" /\ UNCHANGED exit_code
    /\ UNCHANGED <<env, template_text, rows, template_with_css, idx, failures,
                   generated_paths, files, log, open_pos, viewer_errors>>
    /\ UNCHANGED harnessVars

\* lines 383-386
InjectCss ==
    /\ pc = "inject_css"
    /\ template_with_css' = _inject_css_into_html(template_text, DEFAULT_CSS)
    /\ failures' = 0
    /\ generated_paths' = <<>>
    /\ idx' = 1
    /\ pc' = "loop"
    /\ UNCHANGED <<env, template_text, rows, files, log, open_pos, viewer_errors,
                   exit_code>>
    /\ UNCHANGED harnessVars

\* variant: the first failed row ends the loop
RenderRow_abort ==
    /\ pc = "loop"
    /\ idx <= Len(rows)
    /\ \E now \in Clocks, outcome \in PdfOutcomes :
        LET row == rows[idx]
            render == render_template(template_with_css, row, now)
            out_pdf == _choose_output_filename(row, idx) \o Ext
        IN  /\ files' = html_to_pdf(files, render.html, out_pdf, idx, outcome)
            /\ log' = Append(log, [index |-> idx,
                                   missing |-> render.missing_placeholders,
                                   out_pdf |-> out_pdf,
                                   outcome |-> outcome])
            /\ IF outcome = "ok"
               THEN /\ generated_paths' = Append(generated_paths, out_pdf)
                    /\ idx' = idx + 1
                    /\ UNCHANGED failures
               ELSE /\ failures' = failures + 1
                    /\ idx' = Len(rows) + 1
                    /\ UNCHANGED generated_paths
    /\ UNCHANGED <<pc, env, template_text, rows, template_with_css, open_pos,
                   viewer_errors, exit_code>>
    /\ UNCHANGED harnessVars

\* lines 388-405: one iteration of the batch loop
RenderRow ==
    /\ pc = "loop"
    /\ idx <= Len(rows)
    /\ \E now \in Clocks, outcome \in PdfOutcomes :
        LET row == rows[idx]
            render == render_template(template_with_css, row, now)
            out_pdf == _choose_output_filename(row, idx) \o Ext
        IN  /\ files' = html_to_pdf(files, render.html, out_pdf, idx, outcome)
            /\ log' = Append(log, [index |-> idx,
                                   missing |-> render.missing_placeholders,
                                   out_pdf |-> out_pdf,
                                   outcome |-> outcome])
            /\ IF outcome = "ok"
               THEN /\ generated_paths' = Append(generated_paths, out_pdf)
                    /\ UNCHANGED failures
               ELSE /\ failures' = failures + 1
                    /\ UNCHANGED generated_paths
    /\ idx' = idx + 1
    /\ UNCHANGED <<pc, env, template_text, rows, template_with_css, open_pos,
                   viewer_errors, exit_code>>
    /\ UNCHANGED harnessVars

\* lines 407-410: the loop is exhausted, the summary is printed
Summary ==
    /\ pc = "loop"
    /\ idx > Len(rows)
    /\ pc' = "open"
    /\ open_pos' = 1
    /\ UNCHANGED <<env, template_text, rows, template_with_css, idx, failures,
                   generated_paths, files, log, viewer_errors, exit_code>>
    /\ UNCHANGED harnessVars

\* lines 413-414 with open_file, lines 264-280: a failed launch is caught and
\* printed inside open_file
OpenFile ==
    /\ pc = "open"
    /\ open_pos <= Len(generated_paths)
    /\ \E launched \in BOOLEAN :
        viewer_errors' = IF launched THEN viewer_errors ELSE viewer_errors + 1
    /\ open_pos' = open_pos + 1
    /\ UNCHANGED <<pc, env, template_text, rows, template_with_css, idx, failures,
                   generated_paths, files, log, exit_code>>
    /\ UNCHANGED harnessVars

\* variant: a viewer that failed to launch also makes the run a failure
Return_strict ==
    /\ pc = "open"
    /\ open_pos > Len(generated_paths)
    /\ pc' = "done"
    /\ exit_code' = IF failures = 0 /\ viewer_errors = 0 THEN 0 ELSE 1
    /\ UNCHANGED <<env, template_text, rows, template_with_css, idx, failures,
                   generated_paths, files, log, open_pos, viewer_errors>>
    /\ UNCHANGED harnessVars

\* line 416
Return ==
    /\ pc = "open"
    /\ open_pos > Len(generated_paths)
    /\ pc' = "done"
    /\ exit_code' = IF failures = 0 THEN 0 ELSE 1
    /\ UNCHANGED <<env, template_text, rows, template_with_css, idx, failures,
                   generated_paths, files, log, open_pos, viewer_errors>>
    /\ UNCHANGED harnessVars

Next ==
    \/ ResolveFiles
    \/ ValidateInputs
    \/ ReadTemplate
    \/ LoadCsv
    \/ MakeOutDir
    \/ InjectCss
    \/ RenderRow
    \/ Summary
    \/ OpenFile
    \/ Return

Spec == Init /\ [][Next]_vars

-----------------------------------------------------------------------------
(* Single calls of the pure functions, on inputs drawn from bounded sets *)

\* main() is not running
Parked ==
    /\ pc = "parked"
    /\ env = [select_csv |-> "resolved", select_template |-> "resolved",
              csv |-> "ok", template |-> "ok", out_dir |-> "ok"]
    /\ template_text = <<>>
    /\ rows = <<>>
    /\ template_with_css = <<>>
    /\ idx = 0
    /\ failures = 0
    /\ generated_paths = <<>>
    /\ files = NoFiles
    /\ log = <<>>
    /\ open_pos = 0
    /\ viewer_errors = 0
    /\ exit_code = -1

\* all concatenations of at most n members of the set parts
RECURSIVE Concats(_, _)
Concats(parts, n) ==
    IF n = 0 THEN {<<>>}
    ELSE LET shorter == Concats(parts, n - 1)
         IN  shorter \cup {p \o t : p \in parts, t \in shorter}

\* ---- _sanitize_filename

SanitizeChars == {"a", "_", " ", "\t", ".", "/", ":"}

SanitizeInputs == UNION {[1..n -> SanitizeChars] : n \in 0..MaxNameLen}

InitSanitize ==
    /\ Parked
    /\ args \in [name : SanitizeInputs]
    /\ result = <<>>
    /\ returned = FALSE

CallSanitize ==
    /\ ~returned
    /\ result' = _sanitize_filename(args.name)
    /\ returned' = TRUE
    /\ UNCHANGED args
    /\ UNCHANGED mainVars

SpecSanitize == InitSanitize /\ [][CallSanitize]_vars

\* ---- _choose_output_filename

K_other == <<"c", "i", "t", "y">>

NameKeySet == {NameKeys[i] : i \in 1..Len(NameKeys)}

\* an empty cell, a blank cell, a usable name, a name that sanitizes to nothing
ChooseValues == {<<>>, <<" ">>, <<"a", "/", " ">>, <<".">>}

ChooseRows == UNION {[D -> ChooseValues] : D \in SUBSET (NameKeySet \cup {K_other})}

ChooseIndexes == {3, 10000}

InitChoose ==
    /\ Parked
    /\ args \in [row : ChooseRows, index : ChooseIndexes]
    /\ result = <<>>
    /\ returned = FALSE

CallChoose ==
    /\ ~returned
    /\ result' = _choose_output_filename(args.row, args.index)
    /\ returned' = TRUE
    /\ UNCHANGED args
    /\ UNCHANGED mainVars

SpecChoose == InitChoose /\ [][CallChoose]_vars

\* ---- render_template

V_b == <<"b">>

TemplateParts ==
    {TimestampToken,
     <<"{", "{", " ", "g", "e", "n", "e", "r", "a", "t", "e", "d", "_", "a", "t", " ", "}", "}">>,
     <<"{", "{", "b", "}", "}">>,
     <<"{", "{", "a", "}", "}">>,
     <<"{", "{", " ", "Z", "\t", "}", "}">>,
     <<"x", "{">>,
     <<"{", "{", "a", " ", "b", "}", "}">>}

RenderTemplates == Concats(TemplateParts, MaxTplParts)

\* cell values: plain text, and text that itself holds placeholder syntax
RenderValues == {V_v, TimestampToken, <<"{", "{", "b", "}", "}">>}

RenderRows == UNION {[D -> RenderValues] : D \in SUBSET {V_a, V_b, K_generated_at}}

InitRender ==
    /\ Parked
    /\ args \in [template : RenderTemplates, row : RenderRows, now : Clocks]
    /\ result = [html |-> <<>>, missing_placeholders |-> <<>>]
    /\ returned = FALSE

CallRender ==
    /\ ~returned
    /\ result' = render_template(args.template, args.row, args.now)
    /\ returned' = TRUE
    /\ UNCHANGED args
    /\ UNCHANGED mainVars

SpecRender == InitRender /\ [][CallRender]_vars

\* ---- _inject_css_into_html, applied to a document and then to its own output

DocParts ==
    {<<"<", "/", "h", "e", "a", "d", ">">>,
     <<"<", "/", "H", "E", "A", "D", "\n", ">">>,
     <<"<", "h", "t", "m", "l", ">">>,
     <<"<", "H", "T", "M", "L", " ", "l", "a", "n", "g", "=", "e", "n", ">">>,
     <<"<", "h", "e", "a", "d", ">">>,
     <<"<", "p", ">", "x">>}

Documents == Concats(DocParts, MaxDocParts)

InitInject ==
    /\ Parked
    /\ args \in [html : Documents]
    /\ result = <<>>
    /\ returned = FALSE

\* result[1] is the styled document, result[2] the styled document styled again
CallInject ==
    /\ ~returned
    /\ result' = Append(result,
                        _inject_css_into_html(
                            IF result = <<>> THEN args.html ELSE result[Len(result)],
                            DEFAULT_CSS))
    /\ returned' = (Len(result) = 1)
    /\ UNCHANGED args
    /\ UNCHANGED mainVars

SpecInject == InitInject /\ [][CallInject]_vars

-----------------------------------------------------------------------------
(* Properties of the batch run, checked under Spec *)

\* output names of the logged iterations that succeeded, in order
RECURSIVE ProducedOf(_)
ProducedOf(l) ==
    IF l = <<>> THEN <<>>
    ELSE (IF Head(l).outcome = "ok" THEN <<Head(l).out_pdf>> ELSE <<>>)
             \o ProducedOf(Tail(l))

FailedIn(l) == {i \in 1..Len(l) : l[i].outcome # "ok"}

RunCompleted == pc \in {"open", "done"} /\ exit_code # 2

\* C1: once the batch loop is over every row has been attempted exactly once,
\* in input order, whatever failed before it; the produced list is the output
\* names of the rows whose render succeeded, in input order; the failure count
\* is the number of rows whose render failed; produced + failed = rows.
C1_BatchIsolation ==
    RunCompleted =>
        /\ Len(log) = Len(rows)
        /\ \A i \in 1..Len(log) :
              /\ log[i].index = i
              /\ log[i].out_pdf = _choose_output_filename(rows[i], i) \o Ext
        /\ generated_paths = ProducedOf(log)
        /\ failures = Cardinality(FailedIn(log))
        /\ Len(generated_paths) + failures = Len(rows)

\* a finished run of three rows whose second render failed: rows 1 and 3 are
\* produced
C1_Witness ==
    /\ pc = "done"
    /\ Len(rows) = 3
    /\ Len(log) = 3
    /\ log[1].outcome = "ok"
    /\ log[2].outcome = "render_raised"
    /\ log[3].outcome = "ok"
    /\ Len(generated_paths) = 2
    /\ failures = 1

InputsLoad ==
    /\ env.select_csv = "resolved"
    /\ env.select_template = "resolved"
    /\ env.csv = "ok"
    /\ env.template = "ok"
    /\ env.out_dir = "ok"

\* C2: when all inputs load, main() returns 0 exactly when the failure count
\* is 0 and 1 otherwise; the failure count is the number of failed renders
\* only, so unresolved placeholders and viewer launch failures never change
\* the value returned.
C2_ExitIndicator ==
    (pc = "done" /\ InputsLoad) =>
        /\ exit_code = (IF failures = 0 THEN 0 ELSE 1)
        /\ (exit_code = 0) <=> (\A i \in 1..Len(log) : log[i].outcome = "ok")

\* a run that returns 0 although a row had unresolved placeholders and a
\* viewer failed to launch
C2_Witness ==
    /\ pc = "done"
    /\ exit_code = 0
    /\ viewer_errors > 0
    /\ \E i \in 1..Len(log) : log[i].missing # <<>>

InputFailure == ~InputsLoad

\* C3: with a template or CSV that cannot be found, read or decoded, or an
\* output directory that cannot be created, no row is ever rendered and no
\* file written, and main() returns 2; 2 is returned in no other case, in
\* particular never after a row has been processed.
C3_FatalInput ==
    /\ InputFailure =>
          /\ log = <<>>
          /\ DOMAIN files = {}
          /\ generated_paths = <<>>
          /\ pc \notin {"inject_css", "loop", "open"}
          /\ pc = "done" => exit_code = 2
    /\ exit_code = 2 => InputFailure /\ log = <<>>
    /\ log # <<>> => exit_code \in {-1, 0, 1}

\* the CSV exists but cannot be decoded: the run got as far as load_csv and
\* returned 2 with nothing rendered
C3_Witness ==
    /\ pc = "done"
    /\ exit_code = 2
    /\ env.csv = "undecodable"
    /\ env.template = "ok"
    /\ template_text # <<>>
    /\ log = <<>>

\* C10: at the end of the run every produced path names a file that holds the
\* complete document of a row whose render succeeded, and no file was left
\* behind by a row whose render failed.
C10_ProducedFilesIntact ==
    pc = "done" =>
        /\ \A k \in 1..Len(generated_paths) :
              /\ generated_paths[k] \in DOMAIN files
              /\ files[generated_paths[k]].complete
              /\ log[files[generated_paths[k]].by].outcome = "ok"
        /\ \A i \in FailedIn(log) :
              \A n \in DOMAIN files : files[n].by # i

-----------------------------------------------------------------------------
(* Properties of render_template, checked under SpecRender *)

\* one pass from the left: a placeholder becomes the row's value, taken
\* literally; the timestamp placeholder of a row without that column becomes
\* the timestamp; any other placeholder becomes the empty string
RECURSIVE ExpandOnce(_, _, _, _)
ExpandOnce(s, i, row, stamp) ==
    LET at == NextPlaceholder(s, i)
    IN  IF at = 0 THEN SubSeq(s, i, Len(s))
        ELSE LET m == PLACEHOLDER_RE(s, at)
             IN  SubSeq(s, i, at - 1)
                     \o (IF m.key \in DOMAIN row THEN row[m.key]
                         ELSE IF m.key = K_generated_at THEN stamp
                         ELSE <<>>)
                     \o ExpandOnce(s, m.next, row, stamp)

\* the names of the placeholders of s from position i on
RECURSIVE TokenNames(_, _)
TokenNames(s, i) ==
    LET at == NextPlaceholder(s, i)
    IN  IF at = 0 THEN {}
        ELSE {PLACEHOLDER_RE(s, at).key} \cup TokenNames(s, PLACEHOLDER_RE(s, at).next)

BraceFree(row) ==
    \A k \in DOMAIN row : \A n \in 1..Len(row[k]) : row[k][n] \notin {"{", "}"}

\* C4: for a row without a generated_at column (and with values free of brace
\* syntax), every timestamp placeholder of the template is replaced by the
\* current time as YYYY-MM-DD HH:MM:SS, never by the empty string.
C4_TimestampExpanded ==
    (returned /\ K_generated_at \notin DOMAIN args.row /\ BraceFree(args.row)) =>
        result.html = ExpandOnce(args.template, 1, args.row, strftime(args.now))

\* C5: the unresolved list is the sorted, duplicate-free list of the
\* placeholder names of the template that are not columns of the row, without
\* generated_at.
C5_UnresolvedList ==
    returned =>
        result.missing_placeholders =
            Sorted((TokenNames(args.template, 1) \ DOMAIN args.row) \ {K_generated_at})

\* C6: a value that holds placeholder syntax is inserted literally and no
\* later pass touches it (stated for templates without timestamp placeholder).
C6_NoRecursiveSubstitution ==
    (returned /\ K_generated_at \notin TokenNames(args.template, 1)) =>
        result.html = ExpandOnce(args.template, 1, args.row, strftime(args.now))

-----------------------------------------------------------------------------
(* Properties of _inject_css_into_html, checked under SpecInject *)

\* C7 as stated: styling the styled document again changes nothing.
C7_Idempotent ==
    Len(result) = 2 => result[2] = result[1]

\* C7, amended: styling the styled document again inserts the style block a
\* second time: the result is the once-styled document with one more copy of
\* the block inserted at some position, so the two always differ.
C7_InsertsAgain ==
    Len(result) = 2 =>
        /\ result[2] # result[1]
        /\ \E p \in 0..Len(result[1]) :
              result[2] = SubSeq(result[1], 1, p) \o style_block(DEFAULT_CSS)
                              \o SubSeq(result[1], p + 1, Len(result[1]))

\* a document with only an opening html tag, styled twice: the second block
\* goes into the head section the first call made
C7_Witness ==
    /\ Len(result) = 2
    /\ args.html = <<"<", "h", "t", "m", "l", ">", "<", "p", ">", "x">>
    /\ result[1] = <<"<", "h", "t", "m", "l", ">">> \o HeadOpen
                       \o style_block(DEFAULT_CSS) \o HeadClose \o <<"<", "p", ">", "x">>
    /\ Len(result[2]) = Len(result[1]) + Len(style_block(DEFAULT_CSS))

-----------------------------------------------------------------------------
(* Properties of the Output Namer, checked under SpecSanitize and SpecChoose *)

\* the four steps as the specification words them: trim, one underscore for
\* each reserved character, strip trailing dots and spaces, default if empty
FourSteps(name) ==
    LET trimmed == Strip(name)
        replaced == [i \in 1..Len(trimmed) |->
                        IF trimmed[i] \in ReservedChars THEN "_" ELSE trimmed[i]]
        stripped == RStrip(replaced, {".", " "})
    IN  IF stripped = <<>> THEN DefaultName ELSE stripped

\* C8: _sanitize_filename returns the result of the four steps; the result is
\* never empty, holds no reserved character and never ends with a dot or a
\* space.
C8_SanitizeFourSteps ==
    returned =>
        /\ result = FourSteps(args.name)
        /\ result # <<>>
        /\ \A i \in 1..Len(result) : result[i] \notin ReservedChars
        /\ result[Len(result)] \notin {".", " "}

PriorityOrder ==
    <<K_filename, K_file_name, K_doc_name, K_document_name, K_id, K_name>>

\* positions in PriorityOrder of the columns whose value is not blank
Usable(row) ==
    {k \in 1..Len(PriorityOrder) :
        /\ PriorityOrder[k] \in DOMAIN row
        /\ Strip(row[PriorityOrder[k]]) # <<>>}

\* C9: the name is the sanitized value of the first column of filename,
\* file_name, doc_name, document_name, id, name whose value is not blank; if
\* there is none it is document_ followed by the index padded with zeros to
\* width 4, whatever else the row holds.
C9_FirstMatchWins ==
    returned =>
        /\ Usable(args.row) # {} =>
              LET first == CHOOSE k \in Usable(args.row) :
                               \A j \in Usable(args.row) : k <= j
              IN  result = _sanitize_filename(args.row[PriorityOrder[first]])
        /\ Usable(args.row) = {} =>
              result = FallbackPrefix \o ZeroPad(Decimal(args.index), 4)
        /\ (Usable(args.row) = {} /\ args.index = 3) =>
              result = <<"d", "o", "c", "u", "m", "e", "n", "t", "_", "0", "0", "0", "3">>

\* filename is blank, id sanitizes to nothing and yields the default name,
\* the usable name column after it is not consulted
C9_Witness ==
    /\ returned
    /\ K_filename \in DOMAIN args.row
    /\ args.row[K_filename] = <<" ">>
    /\ K_id \in DOMAIN args.row
    /\ args.row[K_id] = <<".">>
    /\ K_name \in DOMAIN args.row
    /\ args.row[K_name] = <<"a", "/", " ">>
    /\ result = DefaultName

====
